---- MODULE Spec2Model ----
(***************************************************************************)
(* build_pack.py: fill a destination directory with the files an SMDB      *)
(* manifest names, found by content hash in source directories and         *)
(* (nested) archives.                                                      *)
(*                                                                         *)
(* Text (paths, manifest fields) is a sequence of one-character strings.   *)
(* A blob is the byte content of a file or of an archive entry; what       *)
(* libarchive makes of it is part of the blob: it either is no archive     *)
(* (k = "leaf") or decodes to a sequence of entries, after which the       *)
(* reader either ends normally or raises (err).                            *)
(***************************************************************************)
EXTENDS Integers, Sequences, FiniteSets, TLC

\* ---------------------------------------------------------------- bounds
NData == 2        \* distinct leaf contents
MaxNest == 3      \* levels of single-entry containers around a leaf
MaxLines == 2     \* lines of the SMDB file
MaxRoots == 2     \* sources given more than one at a time

\* ------------------------------------------------------ program constants
Sha256HexLen == 64    \* len(sha256) != 64
KeyOffset == 65       \* l[65:]
SmdbFields == 5       \* sha256, filename, sha1, md5, crc = ...split('\t', 4)

\* ------------------------------------------------------------------ text
TAB == "\t"
NL == "\n"
SEP == "/"

\* Code points of the characters the model's text uses (str comparison).
Code(c) ==
  CASE c = TAB -> 9
    [] c = NL -> 10
    [] c = "." -> 46
    [] c = SEP -> 47
    [] c = "0" -> 48
    [] c = "1" -> 49
    [] c = "a" -> 97
    [] c = "d" -> 100
    [] c = "h" -> 104
    [] c = "o" -> 111
    [] c = "x" -> 120
    [] OTHER -> 127

\* Python's s < t on str: lexicographic by code point, a proper prefix is less.
RECURSIVE StrLess(_, _)
StrLess(s, t) ==
  IF t = <<>> THEN FALSE
  ELSE IF s = <<>> THEN TRUE
  ELSE IF Code(Head(s)) # Code(Head(t)) THEN Code(Head(s)) < Code(Head(t))
  ELSE StrLess(Tail(s), Tail(t))

\* s[n:]
Drop(s, n) == IF n >= Len(s) THEN <<>> ELSE SubSeq(s, n + 1, Len(s))

\* '\t'.join(fields)
RECURSIVE JoinTab(_)
JoinTab(fields) ==
  IF fields = <<>> THEN <<>>
  ELSE IF Len(fields) = 1 THEN fields[1]
  ELSE fields[1] \o <<TAB>> \o JoinTab(Tail(fields))

\* ----------------------------------------------------------------- paths
\* posixpath.join(a, b)
Join(a, b) ==
  IF b # <<>> /\ b[1] = SEP THEN b
  ELSE IF a = <<>> \/ a[Len(a)] = SEP THEN a \o b
  ELSE a \o <<SEP>> \o b

\* index of the last SEP of p, 0 if none (p.rfind('/') + 1)
RECURSIVE RFindSep(_, _)
RFindSep(p, i) ==
  IF i = 0 THEN 0 ELSE IF p[i] = SEP THEN i ELSE RFindSep(p, i - 1)

RECURSIVE RStripSep(_)
RStripSep(p) ==
  IF p # <<>> /\ p[Len(p)] = SEP THEN RStripSep(SubSeq(p, 1, Len(p) - 1)) ELSE p

\* posixpath.dirname(p)
Dirname(p) ==
  LET head == SubSeq(p, 1, RFindSep(p, Len(p)))
  IN IF RStripSep(head) = <<>> THEN head ELSE RStripSep(head)

\* p.split('/'): the components of a path, empty ones included
RECURSIVE SplitSep(_, _, _)
SplitSep(p, i, cur) ==
  IF i > Len(p) THEN <<cur>>
  ELSE IF p[i] = SEP THEN <<cur>> \o SplitSep(p, i + 1, <<>>)
  ELSE SplitSep(p, i + 1, Append(cur, p[i]))

\* The file the kernel reaches by an absolute path: the sequence of its
\* component names from the root; "" and "." are skipped, ".." steps up
\* (staying at the root). Exact when every component before a ".." is an
\* existing directory and no symbolic link is crossed.
RECURSIVE Walk(_, _)
Walk(comps, at) ==
  IF comps = <<>> THEN at
  ELSE LET c == Head(comps)
       IN IF c = <<>> \/ c = <<".">> THEN Walk(Tail(comps), at)
          ELSE IF c = <<".", ".">>
          THEN Walk(Tail(comps), IF at = <<>> THEN at ELSE SubSeq(at, 1, Len(at) - 1))
          ELSE Walk(Tail(comps), Append(at, c))

Resolve(p) == Walk(SplitSep(p, 1, <<>>), <<>>)

\* the directories on the way to (and including) the resolved path r
Prefixes(r) == {SubSeq(r, 1, n) : n \in 0..Len(r)}

IsPrefix(a, b) == Len(a) <= Len(b) /\ SubSeq(b, 1, Len(a)) = a

\* ----------------------------------------------------------------- blobs
NoErr == "none"
ArchiveError == "ArchiveError"
ValueError == "ValueError"
OSError == "OSError"
ZeroDivisionError == "ZeroDivisionError"

Leaf(d) == [k |-> "leaf", data |-> d, entries |-> <<>>, err |-> NoErr]
Arch(es, e) == [k |-> "arch", data |-> 0, entries |-> es, err |-> e]

RECURSIVE Wrap(_, _)
Wrap(n, b) == IF n = 0 THEN b ELSE Arch(<<Wrap(n - 1, b)>>, NoErr)

\* hashlib.sha256 of a blob's bytes. SHA-256 is modelled as collision free:
\* a digest stands for the content digested, whichever way it was read.
Sha256(bytes) == <<"sha256", bytes>>

\* hash_mem(buf)
hash_mem(buf) == Sha256(buf)

\* ------------------------------------------------------------- SMDB file
\* One line of the SMDB file: <sha256 hex> TAB <filename> TAB <rest...> NL.
\* The hex field is kept as its length, whether it is hexadecimal, and the
\* digest it spells; rest is the sequence of the remaining fields.
Line(n, hex, digest, filename, rest) ==
  [sha256 |-> [len |-> n, hex |-> hex, digest |-> digest],
   filename |-> filename, rest |-> rest]

\* The text of a line after its hex field and the TAB that follows it.
AfterHex(l) == JoinTab(<<l.filename>> \o l.rest) \o <<NL>>

\* l[65:], for a hex field of at most 64 characters
SortKey(l) == Drop(AfterHex(l), KeyOffset - (l.sha256.len + 1))

\* lines.sort(key=..., reverse=True): descending by key, and stable (lines
\* with equal keys keep their order in the file).
RECURSIVE InsertLine(_, _)
InsertLine(sorted, l) ==
  IF sorted = <<>> THEN <<l>>
  ELSE IF StrLess(SortKey(Head(sorted)), SortKey(l)) THEN <<l>> \o sorted
  ELSE <<Head(sorted)>> \o InsertLine(Tail(sorted), l)

RECURSIVE SortLines(_)
SortLines(lines) ==
  IF lines = <<>> THEN <<>>
  ELSE InsertLine(SortLines(SubSeq(lines, 1, Len(lines) - 1)), lines[Len(lines)])

EmptyDB == [h \in {} |-> <<>>]

\* DB[key] = filename
DBPut(db, key, filename) ==
  [h \in DOMAIN db \cup {key} |-> IF h = key THEN filename ELSE db[h]]

\* The for loop of load_smdb over the sorted lines, from DB = {}: the DB
\* built, and the ValueError that ended it, if any (unpacking other than five
\* fields, a hex field not 64 long, bytearray.fromhex on a non-hex field).
RECURSIVE LoadLines(_, _)
LoadLines(lines, db) ==
  IF lines = <<>> THEN [DB |-> db, err |-> NoErr]
  ELSE LET l == Head(lines)
       IN IF 2 + Len(l.rest) # SmdbFields THEN [DB |-> db, err |-> ValueError]
          ELSE IF l.sha256.len # Sha256HexLen THEN [DB |-> db, err |-> ValueError]
          ELSE IF ~l.sha256.hex THEN [DB |-> db, err |-> ValueError]
          ELSE LoadLines(Tail(lines), DBPut(db, l.sha256.digest, l.filename))

\* load_smdb(smdb)
load_smdb(lines) == LoadLines(SortLines(lines), EmptyDB)

\* ---------------------------------------------------------- source trees
\* What a source path names: a directory with its children in the order the
\* operating system lists them, a regular file with its content, something
\* that is neither (a dangling link, a device), or, inside the program, a
\* bytes object (an archive entry read into memory).
NoBlob == Leaf(0)
File(name, blob, readable) ==
  [t |-> "file", name |-> name, kids |-> <<>>, blob |-> blob, readable |-> readable]
Dir(name, kids) ==
  [t |-> "dir", name |-> name, kids |-> kids, blob |-> NoBlob, readable |-> TRUE]
Other(name) ==
  [t |-> "other", name |-> name, kids |-> <<>>, blob |-> NoBlob, readable |-> FALSE]
Mem(buf) ==
  [t |-> "mem", name |-> <<>>, kids |-> <<>>, blob |-> buf, readable |-> TRUE]

isdir(node) == node.t = "dir"
isfile(node) == node.t = "file"
isbytes(node) == node.t = "mem"

\* glob's rule for a pattern that does not start with a dot
ishidden(name) == name # <<>> /\ name[1] = "."

\* glob.glob(os.path.join(source, '*')): the children '*' matches
RECURSIVE GlobStar(_)
GlobStar(kids) ==
  IF kids = <<>> THEN <<>>
  ELSE IF ishidden(Head(kids).name) THEN GlobStar(Tail(kids))
  ELSE <<Head(kids)>> \o GlobStar(Tail(kids))


\* ----------------------------------------------------------------- state
VARIABLES
  pc,        \* where main is: "start", "sources", "done", "smdb_error", "crashed"
  run,       \* 1: the first invocation of the program, 2: the second
  smdb,      \* the lines of the SMDB file (argv[1])
  sources,   \* what the source arguments name (argv[3:])
  next,      \* the round of main's for loop over the sources that comes next
  cur,       \* history: index in sources of the source being read
  DB,        \* global DB: digest -> filename
  FOUND,     \* global FOUND
  files,     \* the file system's regular files: resolved path -> content
  dirs,      \* the file system's directories: resolved paths
  stack,     \* the call stack under main's for loop
  exc,       \* the exception in flight, NoErr if none
  stdout,    \* what main has printed
  decoded,   \* history: entries the archive reader that raised last had yielded
  calls,     \* history: the calls of write_file of this invocation
  before,    \* history: FOUND, files, dirs when the current source was started
  first      \* history: how the first invocation ended

vars == <<pc, run, smdb, sources, next, cur, DB, FOUND, files, dirs, stack, exc,
          stdout, decoded, calls, before, first>>

\* argv[2], an existing directory (main returns early otherwise)
Destination == <<SEP, "o">>

\* ------------------------------------------------------------ file system
\* exists with a fault: never true; os.path.isdir in its place
exists_never(path, ds) == FALSE
exists_isdir(path, ds) == Resolve(path) \in ds

\* os.path.exists(path), the directories being ds
exists(path, ds) == Resolve(path) \in DOMAIN files \cup ds

\* pathlib.Path(out_dir).mkdir(parents=True, exist_ok=True): the directories
\* afterwards, or OSError (FileExistsError, NotADirectoryError) when the path
\* or one of its parents is a regular file; nothing is created then, for the
\* first os.mkdir already fails on it.
mkdir(out_dir) ==
  LET need == Prefixes(Resolve(out_dir))
  IN IF need \cap DOMAIN files # {} THEN [err |-> OSError, dirs |-> dirs]
     ELSE [err |-> NoErr, dirs |-> dirs \cup need]

\* open(out_path, 'wb').write(source) / shutil.copyfile(source, out_path)
copy(fs, out_path, bytes) ==
  [p \in DOMAIN fs \cup {Resolve(out_path)} |->
     IF p = Resolve(out_path) THEN bytes ELSE fs[p]]

\* hash_file(path), of a file that can be opened
hash_file(path) == Sha256(path.blob)

\* found_add with a fault: FOUND.add(h) before the test of h in DB
found_add_first(h) == FOUND \cup {h}

\* FOUND after lines 116-118 of write_file
found_add(h) == IF h \in DOMAIN DB THEN FOUND \cup {h} ELSE FOUND

\* write_file(source, destination, h) with destination = Destination: the
\* globals and the file system afterwards, the exception raised, and for the
\* history what the call did and to which file.
write_file(source, h) ==
  IF h \notin DOMAIN DB
  THEN [FOUND |-> found_add(h), files |-> files, dirs |-> dirs, exc |-> NoErr,
        res |-> "nomatch", path |-> <<>>]
  ELSE LET out_path == Join(Destination, DB[h])
           out_dir == Dirname(out_path)
           made == mkdir(out_dir)
       IN IF made.err # NoErr
          THEN [FOUND |-> found_add(h), files |-> files, dirs |-> dirs,
                exc |-> made.err, res |-> "error", path |-> Resolve(out_path)]
          ELSE IF exists(out_path, made.dirs)
          THEN [FOUND |-> found_add(h), files |-> files, dirs |-> made.dirs,
                exc |-> NoErr, res |-> "skipped", path |-> Resolve(out_path)]
          ELSE [FOUND |-> found_add(h), files |-> copy(files, out_path, source.blob),
                dirs |-> made.dirs, exc |-> NoErr, res |-> "written",
                path |-> Resolve(out_path)]

\* ------------------------------------------------------------ call stack
\* done: for read_file(buf) called from an except clause, the exception caught
\* and the entries the reader that raised it had yielded (history).
NoCause == [exc |-> NoErr, n |-> 0]
Frame(fn, src, done) == [fn |-> fn, src |-> src, pos |-> 1, st |-> "call", done |-> done]
Top == stack[Len(stack)]
Pop == SubSeq(stack, 1, Len(stack) - 1)
SetTop(f) == [stack EXCEPT ![Len(stack)] = f]

\* Caught with a fault: ArchiveError is left out of the except clauses
CaughtValueErrorOnly == {ValueError}

\* except (ValueError, libarchive.exception.ArchiveError)
Caught == {ValueError, ArchiveError}

Call(source, h, w, fallback, k) ==
  [root |-> cur, src |-> source, h |-> h, res |-> w.res, path |-> w.path,
   fallback |-> fallback, after |-> k]


\* --------------------------------------------------------------- actions
\* main, lines 144-148: load the SMDB file; a ValueError ends the program.
main_load_smdb ==
  /\ pc = "start"
  /\ LET r == load_smdb(smdb)
     IN /\ DB' = r.DB
        /\ pc' = IF r.err = NoErr THEN "sources" ELSE "smdb_error"
  /\ UNCHANGED <<run, smdb, sources, next, cur, FOUND, files, dirs, stack, exc,
                 stdout, decoded, calls, before, first>>

\* SourceOrder with a fault: the sources are taken last to first
SourceOrderReversed(n) == Len(sources) + 1 - n

\* for source in sources: the n-th round takes the n-th source given.
SourceOrder(n) == n

\* main, lines 150-154: the next source of the for loop.
main_next_source ==
  /\ pc = "sources" /\ stack = <<>> /\ exc = NoErr
  /\ next <= Len(sources)
  /\ cur' = SourceOrder(next)
  /\ LET source == sources[SourceOrder(next)]
     IN stack' = IF isdir(source) THEN <<Frame("read_dir", source, NoCause)>>
                 ELSE IF isfile(source) THEN <<Frame("read_file", source, NoCause)>>
                 ELSE <<>>
  /\ next' = next + 1
  /\ before' = [FOUND |-> FOUND, files |-> files, dirs |-> dirs]
  /\ UNCHANGED <<pc, run, smdb, sources, DB, FOUND, files, dirs, exc, stdout,
                 decoded, calls, first>>

\* main, lines 156-160: the report; the percentage divides by len(DB).
main_report ==
  /\ pc = "sources" /\ stack = <<>> /\ exc = NoErr
  /\ next > Len(sources)
  /\ LET total == Cardinality(DOMAIN DB)
         head == <<<<"Done.">>, <<"SMDB lists", total>>>>
     IN IF total = 0
        THEN /\ stdout' = head
             /\ exc' = ZeroDivisionError
             /\ pc' = "crashed"
        ELSE /\ stdout' = Append(head, <<"Found", Cardinality(FOUND)>>)
             /\ exc' = exc
             /\ pc' = "done"
  /\ UNCHANGED <<run, smdb, sources, next, cur, DB, FOUND, files, dirs, stack,
                 decoded, calls, before, first>>

\* read_dir: one round of its for loop, or its return.
read_dir ==
  /\ pc = "sources" /\ stack # <<>> /\ exc = NoErr
  /\ Top.fn = "read_dir"
  /\ LET paths == GlobStar(Top.src.kids)
     IN IF Top.pos > Len(paths)
        THEN stack' = Pop
        ELSE LET path == paths[Top.pos]
                 here == SetTop([Top EXCEPT !.pos = @ + 1])
             IN stack' = IF isdir(path) THEN Append(here, Frame("read_dir", path, NoCause))
                         ELSE IF isfile(path) THEN Append(here, Frame("read_file", path, NoCause))
                         ELSE here
  /\ UNCHANGED <<pc, run, smdb, sources, next, cur, DB, FOUND, files, dirs, exc,
                 stdout, decoded, calls, before, first>>

\* The effect of hash + write_file on a blob taken as a leaf.
AsLeaf(source, h, fallback, k) ==
  LET w == write_file(source, h)
  IN /\ FOUND' = w.FOUND
     /\ files' = w.files
     /\ dirs' = w.dirs
     /\ exc' = w.exc
     /\ calls' = Append(calls, Call(source, h, w, fallback, k))
     /\ stack' = Pop

\* read_file.
read_file ==
  /\ pc = "sources" /\ stack # <<>>
  /\ Top.fn = "read_file"
  /\ \/ \* lines 102-104: a bytes object is hashed and written
        /\ exc = NoErr /\ Top.st = "call" /\ isbytes(Top.src)
        /\ AsLeaf(Top.src, hash_mem(Top.src.blob), Top.done.exc, Top.done.n)
        /\ UNCHANGED decoded
     \/ \* lines 105-107: a file is first tried as an archive
        /\ exc = NoErr /\ Top.st = "call" /\ ~isbytes(Top.src)
        /\ stack' = IF isfile(Top.src)
                    THEN Append(SetTop([Top EXCEPT !.st = "try"]),
                                Frame("read_archive", Top.src, NoCause))
                    ELSE Pop   \* 'What is it!?'
        /\ UNCHANGED <<FOUND, files, dirs, exc, calls, decoded>>
     \/ \* line 107: read_archive returned
        /\ exc = NoErr /\ Top.st = "try"
        /\ stack' = Pop
        /\ UNCHANGED <<FOUND, files, dirs, exc, calls, decoded>>
     \/ \* lines 108-110: read_archive raised; hash_file opens the file
        /\ exc \in Caught /\ Top.st = "try"
        /\ IF Top.src.readable
           THEN AsLeaf(Top.src, hash_file(Top.src), exc, decoded)
           ELSE /\ exc' = OSError
                /\ stack' = Pop
                /\ UNCHANGED <<FOUND, files, dirs, calls>>
        /\ UNCHANGED decoded
  /\ UNCHANGED <<pc, run, smdb, sources, next, cur, DB, stdout, before, first>>

\* read_archive.
read_archive ==
  /\ pc = "sources" /\ stack # <<>>
  /\ Top.fn = "read_archive"
  /\ LET blob == Top.src.blob
         opens == blob.k = "arch" /\ Top.src.readable
     IN \/ \* lines 78-79: the reader finds no archive in the bytes
           /\ exc = NoErr /\ Top.st = "call" /\ ~opens
           /\ exc' = ArchiveError
           /\ decoded' = 0
           /\ stack' = Pop
        \/ \* lines 79-88: the next entry, read into memory and tried as an archive
           /\ exc = NoErr /\ Top.st = "call" /\ opens
           /\ Top.pos <= Len(blob.entries)
           /\ stack' = Append(SetTop([Top EXCEPT !.st = "try"]),
                              Frame("read_archive", Mem(blob.entries[Top.pos]), NoCause))
           /\ UNCHANGED <<exc, decoded>>
        \/ \* line 79: no entry is left: the reader ends, or raises
           /\ exc = NoErr /\ Top.st = "call" /\ opens
           /\ Top.pos > Len(blob.entries)
           /\ exc' = blob.err
           /\ decoded' = IF blob.err = NoErr THEN decoded ELSE Len(blob.entries)
           /\ stack' = Pop
        \/ \* lines 89-90: the entry is no archive: read_file(buf)
           /\ exc \in Caught /\ Top.st = "try"
           /\ exc' = NoErr
           /\ stack' = Append(SetTop([Top EXCEPT !.st = "except"]),
                              Frame("read_file", Mem(blob.entries[Top.pos]),
                                    [exc |-> exc, n |-> decoded]))
           /\ UNCHANGED decoded
        \/ \* the entry is done: on with the for loop
           /\ exc = NoErr /\ Top.st \in {"try", "except"}
           /\ stack' = SetTop([Top EXCEPT !.st = "call", !.pos = @ + 1])
           /\ UNCHANGED <<exc, decoded>>
  /\ UNCHANGED <<pc, run, smdb, sources, next, cur, DB, FOUND, files, dirs, stdout,
                 calls, before, first>>

\* An exception no except clause of the top frame catches leaves the frame;
\* out of main it ends the program with a traceback.
unwind ==
  /\ pc = "sources" /\ exc # NoErr
  /\ ~(stack # <<>> /\ Top.st = "try" /\ exc \in Caught)
  /\ IF stack # <<>>
     THEN stack' = Pop /\ pc' = pc
     ELSE stack' = stack /\ pc' = "crashed"
  /\ UNCHANGED <<run, smdb, sources, next, cur, DB, FOUND, files, dirs, exc, stdout,
                 decoded, calls, before, first>>

\* The program is run again with the same arguments: a new process, the file
\* system as the first one left it.
rerun ==
  /\ run = 1 /\ pc \in {"done", "crashed", "smdb_error"}
  /\ first' = [pc |-> pc, files |-> files, dirs |-> dirs, FOUND |-> FOUND,
               stdout |-> stdout, calls |-> calls]
  /\ run' = 2
  /\ pc' = "start"
  /\ next' = 1
  /\ cur' = 0
  /\ DB' = EmptyDB
  /\ FOUND' = {}
  /\ stack' = <<>>
  /\ exc' = NoErr
  /\ stdout' = <<>>
  /\ decoded' = 0
  /\ calls' = <<>>
  /\ before' = [FOUND |-> {}, files |-> files, dirs |-> dirs]
  /\ UNCHANGED <<smdb, sources, files, dirs>>

Next ==
  \/ main_load_smdb
  \/ main_next_source
  \/ main_report
  \/ read_dir
  \/ read_file
  \/ read_archive
  \/ unwind
  \/ rerun


\* ---------------------------------------------------------------- inputs
NameA == <<"a">>
NameD == <<"d">>
NameDA == <<"d", SEP, "a">>
NameUp == <<".", ".", SEP, "x">>
NameHidden == <<".", "h">>
Names == {NameA, NameD, NameDA, NameUp}

Leaves == {Leaf(d) : d \in 1..NData}
First == Leaf(1)
Last == Leaf(NData)
Wrapped == {Wrap(n, l) : n \in 1..MaxNest, l \in Leaves}
\* an archive of two entries; archives whose reader raises after one entry
\* (a truncated or damaged archive); such an archive inside a sound one
Pair == Arch(<<First, Last>>, NoErr)
Torn(e) == Arch(<<First>>, e)
Blobs == Leaves \cup Wrapped
           \cup {Pair, Torn(ArchiveError), Torn(ValueError),
                 Arch(<<Torn(ArchiveError), Last>>, NoErr),
                 Arch(<<>>, NoErr)}

\* SMDB lines
Rest == <<<<"0">>, <<"0">>, <<"0">>>>
Good(blob, filename) == Line(Sha256HexLen, TRUE, Sha256(blob), filename, Rest)
GoodLines ==
  {Good(First, n) : n \in Names}
    \cup {Good(l, n) : l \in Leaves \ {First}, n \in {NameA, NameD}}
    \cup {Good(Torn(ArchiveError), NameA)}
BadLines ==
  {Line(Sha256HexLen - 1, TRUE, Sha256(First), NameA, Rest),
   Line(Sha256HexLen, FALSE, Sha256(First), NameA, Rest),
   Line(Sha256HexLen, TRUE, Sha256(First), NameA, <<<<"0">>, <<"0">>>>)}
Lines == GoodLines \cup BadLines

RECURSIVE SeqsUpTo(_, _)
SeqsUpTo(S, n) ==
  IF n = 0 THEN {<<>>}
  ELSE LET shorter == SeqsUpTo(S, n - 1)
       IN shorter \cup {Append(q, x) : q \in shorter, x \in S}

Manifests == SeqsUpTo(Lines, MaxLines)
CoreManifests ==
  {<<>>,
   <<Good(First, NameA), Good(Last, NameA)>>,
   <<Good(First, NameDA), Good(Last, NameD)>>,
   <<Good(First, NameUp)>>,
   <<Good(Torn(ArchiveError), NameA), Good(First, NameD)>>}

\* sources
Plain(blob) == File(NameA, blob, TRUE)
Unreadable == File(NameA, First, FALSE)
DirHidden == Dir(NameD, <<Plain(First), File(NameHidden, Last, TRUE)>>)
DirDeep ==
  Dir(NameD, <<Dir(NameD, <<Plain(Last)>>), Other(NameA), Plain(Wrap(1, First))>>)
Roots ==
  {Plain(b) : b \in Blobs}
    \cup {Unreadable, Other(NameA), Dir(NameD, <<>>), DirHidden, DirDeep,
          Dir(NameD, <<Dir(NameHidden, <<Plain(First)>>)>>)}
RepeatRoots == {Plain(First), Plain(Last), Plain(Wrap(1, First)), DirHidden, Unreadable}

SourceLists == {<<r>> : r \in Roots} \cup SeqsUpTo(RepeatRoots, MaxRoots)
CoreSourceLists ==
  {<<Plain(Pair)>>,
   <<Plain(Last), Plain(Wrap(1, First))>>,
   <<Plain(Torn(ArchiveError))>>,
   <<DirDeep>>}

\* The file system before the first run: the destination exists; it is empty,
\* or holds a file at a name the manifest may use.
Foreign == Leaf(0)
Root == <<>>
Dest == Resolve(Destination)
Outputs ==
  {[files |-> [p \in {} |-> Foreign], dirs |-> {Root, Dest}],
   [files |-> [p \in {Append(Dest, NameA)} |-> Foreign], dirs |-> {Root, Dest}],
   [files |-> [p \in {Append(Dest, NameD)} |-> Foreign], dirs |-> {Root, Dest}]}

\* The arguments of a run: any manifest with one of the core source lists, or
\* one of the core manifests with any source list; any of the outputs.
Init ==
  /\ pc = "start"
  /\ run = 1
  /\ \/ smdb \in Manifests /\ sources \in CoreSourceLists
     \/ smdb \in CoreManifests /\ sources \in SourceLists
  /\ next = 1
  /\ cur = 0
  /\ DB = EmptyDB
  /\ FOUND = {}
  /\ \E o \in Outputs : files = o.files /\ dirs = o.dirs
  /\ stack = <<>>
  /\ exc = NoErr
  /\ stdout = <<>>
  /\ decoded = 0
  /\ calls = <<>>
  /\ before = [FOUND |-> {}, files |-> files, dirs |-> dirs]
  /\ first = [pc |-> "start", files |-> files, dirs |-> dirs, FOUND |-> {},
              stdout |-> <<>>, calls |-> <<>>]

Spec == Init /\ [][Next]_vars


\* -------------------------------------------------------------- claims
Ended == pc \in {"done", "crashed", "smdb_error"}
Target(h) == Resolve(Join(Destination, DB[h]))
Written(p) == {k \in DOMAIN calls : calls[k].path = p /\ calls[k].res = "written"}

\* C1: a call of write_file whose target path exists writes nothing and
\* raises no error, and the bytes at the path stay as they are; no path is
\* written twice in one run, the first writer wins.
C1_FirstWriterWins ==
  /\ [][\A p \in DOMAIN files : p \in DOMAIN files' /\ files'[p] = files[p]]_vars
  /\ [](\A i \in DOMAIN calls :
          /\ calls[i].res = "error" => calls[i].path \notin DOMAIN files \cup dirs
          /\ calls[i].res = "written" =>
               /\ calls[i].path \notin DOMAIN first.files \cup first.dirs
               /\ Written(calls[i].path) = {i})

\* A match found its target path taken by other bytes, and left them there.
C1_Witness ==
  \E i \in DOMAIN calls :
    /\ calls[i].res = "skipped"
    /\ calls[i].path \in DOMAIN files
    /\ files[calls[i].path] # calls[i].src.blob
    /\ exc = NoErr

\* A leaf inside single-entry archives that the reader decodes without error.
RECURSIVE IsChain(_)
IsChain(blob) ==
  \/ blob.k = "leaf"
  \/ /\ blob.k = "arch" /\ blob.err = NoErr /\ Len(blob.entries) = 1
     /\ IsChain(blob.entries[1])

RECURSIVE LeafOf(_)
LeafOf(blob) == IF blob.k = "leaf" THEN blob ELSE LeafOf(blob.entries[1])

RECURSIVE NestOf(_)
NestOf(blob) == IF blob.k = "leaf" THEN 0 ELSE 1 + NestOf(blob.entries[1])

\* The source of the current round is a readable file holding a leaf in N >= 0
\* levels of archives, and the round is over.
ChainRootRead ==
  /\ stack = <<>> /\ cur \in DOMAIN sources
  /\ pc \in {"sources", "crashed"} /\ exc # ZeroDivisionError
  /\ isfile(sources[cur]) /\ sources[cur].readable
  /\ IsChain(sources[cur].blob)

RECURSIVE FilesBeneath(_)
FilesBeneath(node) ==
  IF isfile(node) THEN {node}
  ELSE UNION {FilesBeneath(node.kids[i]) : i \in DOMAIN node.kids}

\* C3: when a run has read its sources without error, every regular file at
\* any depth beneath a directory source, whatever its name, has been handed
\* to read_file, and if its digest is a manifest key the digest is in FOUND.
C3_EveryFileVisited ==
  pc = "done" =>
    \A r \in DOMAIN sources :
      isdir(sources[r]) =>
        \A f \in FilesBeneath(sources[r]) :
          f.blob.k = "leaf" =>
            /\ \E i \in DOMAIN calls : calls[i].src = f
            /\ Sha256(f.blob) \in DOMAIN DB => Sha256(f.blob) \in FOUND

C5_AlwaysReports ==
  /\ pc = "crashed" => Len(stdout) = 3
  /\ pc = "smdb_error" => files = first.files /\ dirs = first.dirs

\* C6: a blob is hashed as a leaf only because the archive reader found no
\* archive in that blob; an error raised while an archive is being read is
\* never turned into the leaf fallback, and an error of write_file ends the
\* reading of the source: no call follows it.
C6_OnlyNoArchiveFallsBack ==
  \A i \in DOMAIN calls :
    /\ calls[i].src.blob.k = "leaf"
    /\ calls[i].res = "error" => i = Len(calls)

\* C7: every file and directory a run creates lies beneath the destination.
C7_UnderDestination ==
  \A p \in (DOMAIN files \ DOMAIN first.files) \cup (dirs \ first.dirs) :
    IsPrefix(Dest, p) /\ p # Dest

\* C8: FOUND is always within the keys of DB, and within a run it only grows.
C8_FoundWithinManifest ==
  /\ [](FOUND \subseteq DOMAIN DB)
  /\ [][run' = run => FOUND \subseteq FOUND']_vars

\* Some manifest entries are found, others are not.
C8_Witness ==
  /\ FOUND # {}
  /\ DOMAIN DB \ FOUND # {}
  /\ \E i \in DOMAIN calls : calls[i].res = "nomatch"

\* C9: a second run with the same arguments leaves every file and directory
\* as the first run left them, ends as the first run did and prints the same
\* counts.
C9_SecondRunChangesNothing ==
  run = 2 =>
    /\ files = first.files /\ dirs = first.dirs
    /\ Ended => pc = first.pc /\ stdout = first.stdout /\ FOUND = first.FOUND

\* The first run wrote a file, the second one met it and reported.
C9_Witness ==
  /\ run = 2 /\ pc = "done"
  /\ \E i \in DOMAIN first.calls : first.calls[i].res = "written"
  /\ \E i \in DOMAIN calls : calls[i].res = "skipped"

\* C10: a blob that is hashed and looked up has had none of its entries
\* read: no blob is handled both as a container and as a leaf.
C10_ContainerOrLeaf ==
  \A i \in DOMAIN calls : calls[i].after = 0


====
